---- MODULE Spec2Model ----
(***************************************************************************)
(* A model of the backtracking parser combinators of src/src/parser.ts:    *)
(* the memoizing copyable iterator, the parser state built on it by        *)
(* createParser, and recognize/accept/chain/choice/option/many/repeat/run. *)
(*                                                                         *)
(* Objects that the TypeScript code allocates (iterators with their shared *)
(* buffer, cursors with their index) live in a heap record that every      *)
(* operation threads through; a parser state is named by the id of the     *)
(* cursor its closure holds.  A thrown error list is an outcome with       *)
(* ok = FALSE.  Parsers (functions from a parser state to a value) are     *)
(* syntax trees that Apply interprets.                                     *)
(***************************************************************************)
EXTENDS Integers, Sequences, FiniteSets, TLC

VARIABLES input, heap, last, nops

vars == <<input, heap, last, nops>>

\* ------------------------------------------------------------------ bounds
MaxLen == 2
MaxOps == 2

Tokens == {"A", "B"}

RECURSIVE SeqsUpTo(_)
SeqsUpTo(n) ==
  IF n = 0 THEN {<<>>}
  ELSE LET S == SeqsUpTo(n - 1)
       IN S \cup {Append(s, t) : s \in {q \in S : Len(q) = n - 1}, t \in Tokens}

Inputs == SeqsUpTo(MaxLen)

\* ------------------------------------------------- the copyable iterator
\* the result the input's own iterator gives on its (n+1)-th next() call
SourceNext(n) ==
  IF n < Len(input) THEN [done |-> FALSE, value |-> input[n + 1]]
  ELSE [done |-> TRUE, value |-> "undefined"]

\* heap after copyableIterator(input): one iterator over the source
\* (src = 0), an empty buffer, one cursor at index 0
NewHeap ==
  [its |-> <<[src |-> 0, buf |-> <<>>]>>,
   curs |-> <<[it |-> 1, i |-> 0]>>,
   srcCalls |-> 0,
   calls |-> <<>>,
   binds |-> <<>>]

\* variant: copy() returns _this(), a cursor at index 0 (unnamed/part_000)
copyFromStart(h, c) ==
  [h |-> [h EXCEPT !.curs = Append(@, [it |-> h.curs[c].it, i |-> 0])],
   c |-> Len(h.curs) + 1]

\* variant: the result fetched from the source is not pushed on the buffer
RECURSIVE nextNoPush(_, _)
nextNoPush(h, c) ==
  LET cur == h.curs[c]
      it == h.its[cur.it]
  IN IF cur.i < Len(it.buf)
     THEN [h |-> [h EXCEPT !.curs[c].i = @ + 1], res |-> it.buf[cur.i + 1]]
     ELSE LET r == IF it.src = 0
                   THEN [h |-> [h EXCEPT !.srcCalls = @ + 1],
                         res |-> SourceNext(h.srcCalls)]
                   ELSE nextNoPush(h, it.src)
          IN [h |-> [r.h EXCEPT !.curs[c].i = @ + 1], res |-> r.res]

\* variant: the index i is declared beside the buffer, one for all the
\* cursors of an iterator
RECURSIVE nextSharedIndex(_, _)
nextSharedIndex(h, c) ==
  LET cur == h.curs[c]
      it == h.its[cur.it]
      step(g) == [g EXCEPT !.curs = [d \in DOMAIN @ |->
                    IF @[d].it = cur.it THEN [@[d] EXCEPT !.i = @ + 1]
                    ELSE @[d]]]
  IN IF cur.i < Len(it.buf)
     THEN [h |-> step(h), res |-> it.buf[cur.i + 1]]
     ELSE LET r == IF it.src = 0
                   THEN [h |-> [h EXCEPT !.srcCalls = @ + 1],
                         res |-> SourceNext(h.srcCalls)]
                   ELSE nextSharedIndex(h, it.src)
          IN [h |-> step([r.h EXCEPT !.its[cur.it].buf = Append(@, r.res)]),
              res |-> r.res]

\* variant: a replayed read returns the newest buffered result
RECURSIVE nextReplayLast(_, _)
nextReplayLast(h, c) ==
  LET cur == h.curs[c]
      it == h.its[cur.it]
  IN IF cur.i < Len(it.buf)
     THEN [h |-> [h EXCEPT !.curs[c].i = @ + 1], res |-> it.buf[Len(it.buf)]]
     ELSE LET r == IF it.src = 0
                   THEN [h |-> [h EXCEPT !.srcCalls = @ + 1],
                         res |-> SourceNext(h.srcCalls)]
                   ELSE nextReplayLast(h, it.src)
          IN [h |-> [r.h EXCEPT !.its[cur.it].buf = Append(@, r.res),
                                !.curs[c].i = @ + 1],
              res |-> r.res]

RECURSIVE next(_, _)
next(h, c) ==
  LET cur == h.curs[c]
      it == h.its[cur.it]
  IN IF cur.i < Len(it.buf)
     THEN [h |-> [h EXCEPT !.curs[c].i = @ + 1], res |-> it.buf[cur.i + 1]]
     ELSE LET r == IF it.src = 0
                   THEN [h |-> [h EXCEPT !.srcCalls = @ + 1],
                         res |-> SourceNext(h.srcCalls)]
                   ELSE next(h, it.src)
          IN [h |-> [r.h EXCEPT !.its[cur.it].buf = Append(@, r.res),
                                !.curs[c].i = @ + 1],
              res |-> r.res]

\* copy: a new cursor over the same iterator (same buffer), at index i
copy(h, c) ==
  [h |-> [h EXCEPT !.curs = Append(@, [it |-> h.curs[c].it, i |-> h.curs[c].i])],
   c |-> Len(h.curs) + 1]

\* copyableIterator({[Symbol.iterator]: state.copy}): the new iterator's
\* source is a copy of cursor c; it has its own empty buffer and a cursor
\* at index 0
copyableIterator(h, c) ==
  LET cp == copy(h, c)
      nit == Len(cp.h.its) + 1
  IN [h |-> [cp.h EXCEPT !.its = Append(@, [src |-> cp.c, buf |-> <<>>]),
                         !.curs = Append(@, [it |-> nit, i |-> 0])],
      c |-> Len(cp.h.curs) + 1]

\* createParser(iterable): the parser state is named by its cursor
createParser(h, c) ==
  LET ci == copyableIterator(h, c) IN [h |-> ci.h, s |-> ci.c]

\* position in the input of the item cursor c reads next
RECURSIVE Position(_, _)
Position(h, c) ==
  LET cur == h.curs[c]
      it == h.its[cur.it]
  IN IF it.src = 0 THEN cur.i
     ELSE cur.i + Position(h, it.src) - Len(it.buf)

\* ----------------------------------------------------------- outcomes
Return(h, v) == [ok |-> TRUE, val |-> v, err |-> <<>>, h |-> h]
Throw(h, e) == [ok |-> FALSE, val |-> <<>>, err |-> e, h |-> h]

EndOfInputMsg == "Expected token, but reached end of input"
FoundMsg(token) == "Found " \o token
ExpectedMsg(token) == "Expected " \o token

\* options === undefined
Undefined == [undefined |-> TRUE]

\* ghost: the parser functions called, in call order, with the state given
LogCall(h, s, p) == [h EXCEPT !.calls = Append(@, [p |-> p, s |-> s])]
\* ghost: the error lists handed to bindError handlers, with the state
LogBind(h, s, e) == [h EXCEPT !.binds = Append(@, [errs |-> e, s |-> s])]

\* -------------------------------------------------------- bindError handlers
\* variant: the choice handler forgets to thread the failed alternative's
\* messages to the remaining alternatives
BindErrorNoContext(handler, errors) ==
  CASE handler.hk = "choiceRest" ->
         [k |-> "run", opt |-> Undefined,
          p |-> [k |-> "choice", ps |-> handler.rest]]
    [] handler.hk = "empty" -> [k |-> "const", v |-> <<>>]
    [] handler.hk = "constant" -> handler.p
    [] handler.hk = "rethrow" -> [k |-> "throw", msgs |-> errors]
    [] handler.hk = "report" -> [k |-> "const", v |-> errors]

\* the parser a bindError handler returns for the error list it is given
BindError(handler, errors) ==
  CASE handler.hk = "choiceRest" ->
         [k |-> "run", opt |-> [withErrors |-> errors],
          p |-> [k |-> "choice", ps |-> handler.rest]]
    [] handler.hk = "empty" -> [k |-> "const", v |-> <<>>]
    [] handler.hk = "constant" -> handler.p
    [] handler.hk = "rethrow" -> [k |-> "throw", msgs |-> errors]
    [] handler.hk = "report" -> [k |-> "const", v |-> errors]

\* ------------------------------------------------------------ parser state
RECURSIVE Apply(_, _, _), Body(_, _, _), run(_, _, _, _), chain(_, _, _), choice(_, _, _),
          many(_, _, _), repeat(_, _, _), Sequence(_, _, _)

\* variant: done is not tested
recognizeNoDoneTest(h, s, ts) ==
  LET r == next(h, s)
  IN IF r.res.value \in ts THEN Return(r.h, r.res.value)
     ELSE Throw(r.h, <<FoundMsg(r.res.value)>>)

\* variant: an item that is rejected, or the end marker, is left unread
recognizeUnread(h, s, ts) ==
  LET r == next(h, s)
      back == [r.h EXCEPT !.curs[s].i = @ - 1]
  IN IF r.res.done THEN Throw(back, <<EndOfInputMsg>>)
     ELSE IF r.res.value \in ts THEN Return(r.h, r.res.value)
     ELSE Throw(back, <<FoundMsg(r.res.value)>>)

recognize(h, s, ts) ==
  LET r == next(h, s)
  IN IF r.res.done THEN Throw(r.h, <<EndOfInputMsg>>)
     ELSE IF r.res.value \in ts THEN Return(r.h, r.res.value)
     ELSE Throw(r.h, <<FoundMsg(r.res.value)>>)

\* variant: recognize is called on the state itself, with no added message
acceptPlain(h, s, token) == recognize(h, s, {token})

accept(h, s, token) ==
  run(h, s, [k |-> "recognize", ts |-> {token}],
      [withError |-> ExpectedMsg(token)])

\* variant: the results are collected in reverse order
chainReversed(h, s, parsers) ==
  IF parsers = <<>> THEN Return(h, <<>>)
  ELSE LET r == run(h, s, Head(parsers), Undefined)
       IN IF ~r.ok THEN r
          ELSE LET rest == chain(r.h, s, Tail(parsers))
               IN IF ~rest.ok THEN rest
                  ELSE Return(rest.h, rest.val \o <<r.val>>)

\* variant: parsers.map((parser) => parser(_this)), without run
chainDirect(h, s, parsers) ==
  IF parsers = <<>> THEN Return(h, <<>>)
  ELSE LET r == Apply(h, s, Head(parsers))
       IN IF ~r.ok THEN r
          ELSE LET rest == chain(r.h, s, Tail(parsers))
               IN IF ~rest.ok THEN rest
                  ELSE Return(rest.h, <<r.val>> \o rest.val)

chain(h, s, parsers) ==
  IF parsers = <<>> THEN Return(h, <<>>)
  ELSE LET r == run(h, s, Head(parsers), Undefined)
       IN IF ~r.ok THEN r
          ELSE LET rest == chain(r.h, s, Tail(parsers))
               IN IF ~rest.ok THEN rest
                  ELSE Return(rest.h, <<r.val>> \o rest.val)

\* variant: the first alternative is run on a parser state built over a
\* copy of the stream and only its value is returned
choiceOnCopy(h, s, parsers) ==
  IF Len(parsers) = 0 THEN Throw(h, <<>>)
  ELSE LET cp == createParser(h, s)
           r == run(cp.h, cp.s, Head(parsers),
                    [bindError |-> [hk |-> "choiceRest",
                                    rest |-> Tail(parsers)]])
       IN [r EXCEPT !.h = [@ EXCEPT !.its = SubSeq(@, 1, Len(h.its)),
                                    !.curs = SubSeq(@, 1, Len(h.curs))]]

choice(h, s, parsers) ==
  IF Len(parsers) = 0 THEN Throw(h, <<>>)
  ELSE run(h, s, Head(parsers),
           [bindError |-> [hk |-> "choiceRest", rest |-> Tail(parsers)]])

\* variant: try { return [parser(_this)] } catch { return [] }
optionNaive(h, s, parser) ==
  LET r == Apply(h, s, parser)
  IN IF r.ok THEN Return(r.h, <<r.val>>) ELSE Return(r.h, <<>>)

option(h, s, parser) ==
  run(h, s, [k |-> "optionBody", p |-> parser],
      [bindError |-> [hk |-> "empty"]])

\* variant: the terminating failure is not absorbed
manyPropagates(h, s, parser) ==
  run(h, s, [k |-> "repeat", p |-> parser], Undefined)

many(h, s, parser) ==
  run(h, s, [k |-> "repeat", p |-> parser], [bindError |-> [hk |-> "empty"]])

\* variant: the first application is made on the state itself, without run
repeatDirect(h, s, parser) ==
  LET parsed == Apply(h, s, parser)
  IN IF ~parsed.ok THEN parsed
     ELSE LET restParsed == many(parsed.h, s, parser)
          IN IF ~restParsed.ok THEN restParsed
             ELSE Return(restParsed.h, <<parsed.val>> \o restParsed.val)

repeat(h, s, parser) ==
  LET parsed == run(h, s, parser, Undefined)
  IN IF ~parsed.ok THEN parsed
     ELSE LET restParsed == many(parsed.h, s, parser)
          IN IF ~restParsed.ok THEN restParsed
             ELSE Return(restParsed.h, <<parsed.val>> \o restParsed.val)

\* variant: added context is put in front of the existing messages
AccumulatedErrorsPrepend(options, errors) ==
  LET a0 == IF "replaceErrors" \in DOMAIN options
            THEN options.replaceErrors ELSE errors
      a1 == IF "withErrors" \in DOMAIN options
            THEN options.withErrors \o a0 ELSE a0
  IN IF "withError" \in DOMAIN options
     THEN <<options.withError>> \o a1 ELSE a1

\* the error list run throws when no bindError and no withDefault is given
AccumulatedErrors(options, errors) ==
  LET a0 == IF "replaceErrors" \in DOMAIN options
            THEN options.replaceErrors ELSE errors
      a1 == IF "withErrors" \in DOMAIN options
            THEN a0 \o options.withErrors ELSE a0
  IN IF "withError" \in DOMAIN options
     THEN Append(a1, options.withError) ELSE a1

\* variant: the parser the handler returns is executed on a parser state
\* built over a copy of the stream
CatchBindOnSnapshot(h, s, options, errors) ==
  IF options = Undefined THEN Throw(h, errors)
  ELSE IF "bindError" \in DOMAIN options
  THEN LET cp == createParser(LogBind(h, s, errors), s)
           r == Apply(cp.h, cp.s, BindError(options.bindError, errors))
       IN [r EXCEPT !.h = [@ EXCEPT !.its = SubSeq(@, 1, Len(h.its)),
                                    !.curs = SubSeq(@, 1, Len(h.curs))]]
  ELSE IF "withDefault" \in DOMAIN options
  THEN Return(h, options.withDefault)
  ELSE Throw(h, AccumulatedErrors(options, errors))

\* the catch block of run
Catch(h, s, options, errors) ==
  IF options = Undefined THEN Throw(h, errors)
  ELSE IF "bindError" \in DOMAIN options
  THEN Apply(LogBind(h, s, errors), s, BindError(options.bindError, errors))
  ELSE IF "withDefault" \in DOMAIN options
  THEN Return(h, options.withDefault)
  ELSE Throw(h, AccumulatedErrors(options, errors))

\* variant: return parser(_this) with no evaluation on a copy first
runDirect(h, s, parser, options) ==
  LET first == Apply(h, s, parser)
  IN IF ~first.ok THEN Catch(first.h, s, options, first.err) ELSE first

\* the parser state run built for its first evaluation is garbage once
\* that evaluation is over (nothing refers to it): drop it, and everything
\* allocated after it, from the heap
Discard(h, before) ==
  [h EXCEPT !.its = SubSeq(@, 1, Len(before.its)),
            !.curs = SubSeq(@, 1, Len(before.curs))]

\* variant: the value of the evaluation on the copy is returned and the
\* parser is not evaluated on the state itself
runValidateOnly(h, s, parser, options) ==
  LET cp == createParser(h, s)
      tried == Apply(cp.h, cp.s, parser)
      first == [tried EXCEPT !.h = Discard(@, h)]
  IN IF ~first.ok THEN Catch(first.h, s, options, first.err) ELSE first

\* variant: parser(_this); return parser(_this), the first evaluation is
\* made on the state itself instead of a copy
runNoCopy(h, s, parser, options) ==
  LET first == Apply(h, s, parser)
  IN IF ~first.ok THEN Catch(first.h, s, options, first.err)
     ELSE LET second == Apply(first.h, s, parser)
          IN IF ~second.ok THEN Catch(second.h, s, options, second.err)
             ELSE second

run(h, s, parser, options) ==
  LET cp == createParser(h, s)
      tried == Apply(cp.h, cp.s, parser)
      first == [tried EXCEPT !.h = Discard(@, h)]
  IN IF ~first.ok THEN Catch(first.h, s, options, first.err)
     ELSE LET second == Apply(first.h, s, parser)
          IN IF ~second.ok THEN Catch(second.h, s, options, second.err)
             ELSE second

\* a parser body that calls its parsers one after the other on the state
\* it is given and returns the array of their values (stuffParser)
Sequence(h, s, parsers) ==
  IF parsers = <<>> THEN Return(h, <<>>)
  ELSE LET r == Apply(h, s, Head(parsers))
       IN IF ~r.ok THEN r
          ELSE LET rest == Sequence(r.h, s, Tail(parsers))
               IN IF ~rest.ok THEN rest
                  ELSE Return(rest.h, <<r.val>> \o rest.val)

\* the body of the parser function p, run on parser state s
Body(h, s, p) ==
     CASE p.k = "recognize" -> recognize(h, s, p.ts)
    [] p.k = "accept" -> accept(h, s, p.t)
    [] p.k = "chain" -> chain(h, s, p.ps)
    [] p.k = "choice" -> choice(h, s, p.ps)
    [] p.k = "option" -> option(h, s, p.p)
    [] p.k = "many" -> many(h, s, p.p)
    [] p.k = "repeat" -> repeat(h, s, p.p)
    [] p.k = "run" -> run(h, s, p.p, p.opt)
    [] p.k = "sequence" -> Sequence(h, s, p.ps)
    [] p.k = "optionBody" ->
         LET parsed == run(h, s, p.p, Undefined)
         IN IF ~parsed.ok THEN parsed ELSE Return(parsed.h, <<parsed.val>>)
    [] p.k = "const" -> Return(h, p.v)
    [] p.k = "throw" -> Throw(h, p.msgs)

\* calling the parser function p with parser state s
Apply(h, s, p) == Body(LogCall(h, s, p), s, p)

\* ------------------------------------------------------- the parsers used
recA == [k |-> "recognize", ts |-> {"A"}]
recAny == [k |-> "recognize", ts |-> Tokens]
accA == [k |-> "accept", t |-> "A"]
accB == [k |-> "accept", t |-> "B"]
\* (p) => [p.recognize(any), p.recognize(x => x === 'A')]: reads two items
\* from the state it is given before it can fail on the second
readXA == [k |-> "sequence", ps |-> <<recAny, recA>>]
failC == [k |-> "throw", msgs |-> <<"Custom">>]

Alternatives == {accA, accB, readXA, failC}

MaxArgs == 2

RECURSIVE ArgLists(_)
ArgLists(n) ==
  IF n = 0 THEN {<<>>}
  ELSE LET S == ArgLists(n - 1)
       IN S \cup {Append(s, a) : s \in {q \in S : Len(q) = n - 1},
                                 a \in Alternatives}

\* (p) => p.chain(accept A, readXA)
chainAX == [k |-> "chain", ps |-> <<accA, readXA>>]
\* (p) => p.run(failC, {bindError: (errors) => readXA})
rebound ==
  [k |-> "run", opt |-> [bindError |-> [hk |-> "constant", p |-> readXA]],
   p |-> failC]

\* parsers handed to run
RunParsers == {accA, readXA, failC, chainAX, rebound}

\* user handlers: (errors) => readXA, (errors) => (p) => { throw errors },
\* (errors) => (p) => errors
Handlers ==
  {[hk |-> "constant", p |-> readXA], [hk |-> "rethrow"], [hk |-> "report"]}

Strategies ==
  {Undefined,
   [withError |-> "Ctx"],
   [replaceErrors |-> <<"Rep">>],
   [withErrors |-> <<"Ctx1", "Ctx2">>, withError |-> "Ctx"],
   [replaceErrors |-> <<"Rep">>, withErrors |-> <<"Ctx1", "Ctx2">>,
    withError |-> "Ctx"],
   [withDefault |-> <<"Dflt">>],
   [withDefault |-> <<"Dflt">>, withError |-> "Ctx"]}
  \cup {[bindError |-> hd] : hd \in Handlers}
  \cup {[bindError |-> [hk |-> "constant", p |-> readXA],
         withDefault |-> <<"Dflt">>, withError |-> "Ctx"]}

\* ------------------------------------------------------------ the program
\* ghost: no call of the caller is being observed
NoCall ==
  [call |-> [k |-> "none"], pre |-> NewHeap, ok |-> TRUE, val |-> <<>>,
   err |-> <<>>, calls |-> <<>>, binds |-> <<>>]

\* const p = createParser(input)
Init ==
  /\ input \in Inputs
  /\ heap = NewHeap
  /\ last = NoCall
  /\ nops = 0

\* the nested parser states of a finished call are unreachable: keep the
\* top-level iterator and cursor
Collect(h) ==
  [its |-> <<h.its[1]>>, curs |-> <<h.curs[1]>>, srcCalls |-> h.srcCalls,
   calls |-> <<>>, binds |-> <<>>]

\* the caller invokes p.<call.k>(...) on the top-level parser state
Invoke(call) ==
  LET out == Body(heap, 1, call)
  IN /\ last.call.k = "none"
     /\ nops < MaxOps
     /\ nops' = nops + 1
     /\ heap' = Collect(out.h)
     /\ last' = [call |-> call, pre |-> heap, ok |-> out.ok, val |-> out.val,
                 err |-> out.err, calls |-> out.h.calls,
                 binds |-> out.h.binds]
     /\ UNCHANGED input

Recognize == \E ts \in {{"A"}, {"B"}, Tokens} :
  Invoke([k |-> "recognize", ts |-> ts])
Accept == \E t \in Tokens : Invoke([k |-> "accept", t |-> t])
Chain == \E ps \in ArgLists(MaxArgs) : Invoke([k |-> "chain", ps |-> ps])
Choice == \E ps \in ArgLists(MaxArgs) : Invoke([k |-> "choice", ps |-> ps])
Option == \E p \in Alternatives : Invoke([k |-> "option", p |-> p])
Many == \E p \in Alternatives : Invoke([k |-> "many", p |-> p])
Repeat == \E p \in Alternatives : Invoke([k |-> "repeat", p |-> p])
Run == \E p \in RunParsers, o \in Strategies :
  Invoke([k |-> "run", opt |-> o, p |-> p])

\* the caller takes the value returned (or catches the error thrown) and
\* goes on to its next statement
Continue ==
  /\ last.call.k # "none"
  /\ last' = NoCall
  /\ UNCHANGED <<input, heap, nops>>

Next ==
  \/ Continue
  \/ Recognize
  \/ Accept
  \/ Chain
  \/ Choice
  \/ Option
  \/ Many
  \/ Repeat
  \/ Run

Spec == Init /\ [][Next]_vars

\* position of the top-level cursor before and after the last call
Pre == Position(last.pre, 1)
Post == Position(heap, 1)

TypeOK ==
  /\ input \in Inputs
  /\ nops \in 0..MaxOps
  /\ Len(heap.its) = 1 /\ Len(heap.curs) = 1
  /\ last.ok \in BOOLEAN

\* ------------------------------------------------------------ properties
\* the parser function p called on the top-level parser state of heap h
Direct(p, h) == Apply(h, 1, p)

\* the outcome of the parser of the last call, called on the state the
\* last call started from
Attempt == Direct(last.call.p, last.pre)

\* the parser functions the last call evaluated, on any parser state
Called == {last.calls[n].p : n \in DOMAIN last.calls}

\* the parser functions that evaluating p can call, p included
RECURSIVE Parts(_)
Parts(p) ==
  {p} \cup
  CASE p.k \in {"chain", "choice", "sequence"} ->
         UNION {Parts(p.ps[j]) : j \in DOMAIN p.ps}
    [] p.k \in {"option", "many", "repeat", "optionBody"} -> Parts(p.p)
    [] p.k = "run" ->
         Parts(p.p) \cup
         (IF "bindError" \in DOMAIN p.opt /\ p.opt.bindError.hk = "constant"
          THEN Parts(p.opt.bindError.p) ELSE {})
    [] p.k = "accept" -> {[k |-> "recognize", ts |-> {p.t}]}
    [] OTHER -> {}

\* C1: when run is called with no strategy, withError/withErrors,
\* replaceErrors or withDefault and the parser fails, the caller's cursor
\* is where it was before the call, whatever the parser read.
C1_FailedRunKeepsCursor ==
  (/\ last.call.k = "run"
   /\ "bindError" \notin DOMAIN last.call.opt
   /\ ~Attempt.ok)
  => Post = Pre

\* a failing parser that read two items, under withDefault, from a
\* position other than the start
C1_Witness ==
  /\ last.call.k = "run"
  /\ "withDefault" \in DOMAIN last.call.opt
  /\ "bindError" \notin DOMAIN last.call.opt
  /\ ~Attempt.ok
  /\ Position(Attempt.h, 1) = Pre + 2
  /\ Pre > 0
  /\ Post = Pre

\* the outcome of the j-th alternative of the last choice or chain, called
\* on the state the last call started from
Alt(j) == Direct(last.call.ps[j], last.pre)

\* the index of the first alternative that succeeds from there, 0 if none
FirstOk ==
  LET S == {j \in DOMAIN last.call.ps : Alt(j).ok}
  IN IF S = {} THEN 0 ELSE CHOOSE j \in S : \A m \in S : j <= m

\* C2: choice returns the result of the first alternative that succeeds
\* from the pre-call position, evaluates no alternative after it, and
\* leaves the cursor advanced by exactly that alternative's consumption.
C2_ChoiceFirstSuccess ==
  (last.call.k = "choice" /\ FirstOk > 0)
  => LET i == FirstOk
         tried == UNION {Parts(last.call.ps[j]) : j \in 1..i}
     IN /\ last.ok
        /\ last.val = Alt(i).val
        /\ Post = Position(Alt(i).h, 1)
        /\ \A j \in DOMAIN last.call.ps :
             (j > i /\ last.call.ps[j] \notin tried)
             => last.call.ps[j] \notin Called

\* the first alternative succeeded reading one item although the second
\* would succeed reading two, and the second was never called
C2_Witness ==
  /\ last.call.k = "choice"
  /\ Len(last.call.ps) = 2
  /\ last.ok
  /\ FirstOk = 1
  /\ Post = Pre + 1
  /\ Alt(2).ok
  /\ Position(Alt(2).h, 1) = Pre + 2
  /\ last.call.ps[2] \notin Called

\* the first alternative read two items and failed, the second succeeded
\* reading one
C2_FallThrough ==
  /\ last.call.k = "choice"
  /\ Len(last.call.ps) = 2
  /\ last.ok
  /\ FirstOk = 2
  /\ Position(Alt(1).h, 1) = Pre + 2
  /\ Post = Pre + 1

\* the values of the consecutive successes of p from the top-level state
\* of heap h, and the heap after the last of them
RECURSIVE Successes(_, _)
Successes(p, h) ==
  LET r == Direct(p, h)
  IN IF ~r.ok THEN [vals |-> <<>>, h |-> h]
     ELSE LET rest == Successes(p, r.h)
          IN [vals |-> <<r.val>> \o rest.vals, h |-> rest.h]

\* C3: many(p) never fails; it returns the results of the k consecutive
\* successes of p in order and leaves the cursor where the k-th ended,
\* the terminating failed application undone.
C3_ManyCollectsSuccesses ==
  last.call.k = "many"
  => LET ref == Successes(last.call.p, last.pre)
     IN /\ last.ok
        /\ last.val = ref.vals
        /\ Post = Position(ref.h, 1)

\* two successes, then a terminating application that fails after
\* reading an item beyond the final cursor position
C3_Witness ==
  /\ last.call.k = "many"
  /\ last.ok
  /\ Len(last.val) = 2
  /\ Post = Pre + 2
  /\ ~Direct(last.call.p, heap).ok
  /\ Len(heap.its[1].buf) > Post

\* C4: option(p) never fails: [v] and p's consumption when p succeeds,
\* [] and the pre-call position when p fails.
C4_OptionNeverFails ==
  last.call.k = "option"
  => /\ last.ok
     /\ Attempt.ok => /\ last.val = <<Attempt.val>>
                      /\ Post = Position(Attempt.h, 1)
     /\ ~Attempt.ok => /\ last.val = <<>>
                       /\ Post = Pre

\* p read two items and failed
C4_Witness ==
  /\ last.call.k = "option"
  /\ ~Attempt.ok
  /\ Position(Attempt.h, 1) = Pre + 2
  /\ last.val = <<>>
  /\ Post = Pre

\* the parsers ps called directly, one after the other, on the top-level
\* state of heap h, up to the first that fails: the values returned, the
\* number of parsers that returned, the heap the failing one was called
\* on and its failure
RECURSIVE InOrder(_, _)
InOrder(ps, h) ==
  IF ps = <<>>
  THEN [ok |-> TRUE, vals |-> <<>>, done |-> 0, h |-> h, err |-> <<>>]
  ELSE LET r == Direct(Head(ps), h)
       IN IF ~r.ok
          THEN [ok |-> FALSE, vals |-> <<>>, done |-> 0, h |-> h,
                err |-> r.err]
          ELSE LET rest == InOrder(Tail(ps), r.h)
               IN [rest EXCEPT !.vals = <<r.val>> \o @, !.done = @ + 1]

\* C5: chain fails iff some parser fails when the parsers are run in order
\* against the evolving state, then with the failure list of the first one
\* to fail, unchanged, and without evaluating any parser after it;
\* otherwise it returns the results in argument order.
C5_ChainFailFast ==
  last.call.k = "chain"
  => LET ref == InOrder(last.call.ps, last.pre)
         tried == UNION {Parts(last.call.ps[j]) : j \in 1..(ref.done + 1)}
     IN /\ last.ok = ref.ok
        /\ ref.ok => last.val = ref.vals
        /\ ~ref.ok =>
             /\ last.err = ref.err
             /\ \A j \in DOMAIN last.call.ps :
                  (j > ref.done + 1 /\ last.call.ps[j] \notin tried)
                  => last.call.ps[j] \notin Called

\* the first of two parsers failed with a non-empty list and the second,
\* a different parser, was never called
C5_Witness ==
  /\ last.call.k = "chain"
  /\ Len(last.call.ps) = 2
  /\ ~last.ok
  /\ ~Alt(1).ok
  /\ last.err = Alt(1).err
  /\ Len(last.err) = 2
  /\ last.call.ps[2] \notin Parts(last.call.ps[1])
  /\ last.call.ps[2] \notin Called

\* C6: when chain is invoked directly on a state and a parser fails, the
\* cursor stands where it stood when that parser was attempted: the
\* consumption of the successful prefix remains, what the failing parser
\* read is undone.
C6_ChainFailurePosition ==
  (last.call.k = "chain" /\ ~InOrder(last.call.ps, last.pre).ok)
  => Post = Position(InOrder(last.call.ps, last.pre).h, 1)

\* the first parser consumed an item, the second read two and failed
C6_Witness ==
  /\ last.call.k = "chain"
  /\ ~last.ok
  /\ InOrder(last.call.ps, last.pre).done = 1
  /\ Post = Pre + 1
  /\ Position(Direct(last.call.ps[2], heap).h, 1) = Post + 2

\* C7: repeat(p) fails exactly when the first application of p fails, with
\* p's failure list and the cursor at the pre-call position; otherwise its
\* result and final position are p's first result followed by the result
\* of many(p) run from where the first application ended.
C7_RepeatIsFirstThenMany ==
  last.call.k = "repeat"
  => /\ last.ok = Attempt.ok
     /\ ~Attempt.ok => /\ last.err = Attempt.err
                       /\ Post = Pre
     /\ Attempt.ok =>
          LET rest == many(Attempt.h, 1, last.call.p)
          IN /\ rest.ok
             /\ last.val = <<Attempt.val>> \o rest.val
             /\ Post = Position(rest.h, 1)

\* the first application read two items and failed
C7_Witness ==
  /\ last.call.k = "repeat"
  /\ ~last.ok
  /\ Position(Attempt.h, 1) = Pre + 2
  /\ Post = Pre

\* the failure lists of the alternatives ps[j..n], latest first
RECURSIVE LatestFirst(_)
LatestFirst(j) ==
  IF j > Len(last.call.ps) THEN <<>> ELSE LatestFirst(j + 1) \o Alt(j).err

\* C8: when every alternative of choice fails, choice fails with the
\* alternatives' failure lists concatenated, each once, the list of an
\* earlier alternative after those of the later ones; with no alternative
\* the failure is the empty list.
C8_ChoiceExhausted ==
  (last.call.k = "choice" /\ FirstOk = 0)
  => /\ ~last.ok
     /\ last.err = LatestFirst(1)
     /\ last.call.ps = <<>> => last.err = <<>>

\* two alternatives failed with different non-empty lists
C8_Witness ==
  /\ last.call.k = "choice"
  /\ Len(last.call.ps) = 2
  /\ ~last.ok
  /\ Alt(1).err # <<>>
  /\ Alt(2).err # <<>>
  /\ Alt(1).err # Alt(2).err
  /\ last.err = Alt(2).err \o Alt(1).err

\* C9: when the parser succeeds run returns its value whatever the
\* strategy; when it fails with E: no strategy re-raises E, withDefault v
\* returns v, and replaceErrors/withErrors/withError fail with (R if
\* replaceErrors R is given, else E), then the withErrors messages, then
\* the withError message.
C9_RunStrategies ==
  last.call.k = "run"
  => LET o == last.call.opt
         E == Attempt.err
         base == IF "replaceErrors" \in DOMAIN o THEN o.replaceErrors ELSE E
         more == IF "withErrors" \in DOMAIN o THEN o.withErrors ELSE <<>>
         one == IF "withError" \in DOMAIN o THEN <<o.withError>> ELSE <<>>
     IN /\ Attempt.ok => (last.ok /\ last.val = Attempt.val)
        /\ (~Attempt.ok /\ o = Undefined) => (~last.ok /\ last.err = E)
        /\ (~Attempt.ok /\ "bindError" \notin DOMAIN o
                        /\ "withDefault" \in DOMAIN o)
             => (last.ok /\ last.val = o.withDefault)
        /\ (~Attempt.ok /\ o # Undefined
                        /\ "bindError" \notin DOMAIN o
                        /\ "withDefault" \notin DOMAIN o)
             => (~last.ok /\ last.err = base \o more \o one)

\* a failure under replaceErrors, withErrors and withError together
C9_Witness ==
  /\ last.call.k = "run"
  /\ DOMAIN last.call.opt = {"replaceErrors", "withErrors", "withError"}
  /\ ~Attempt.ok
  /\ Attempt.err # <<>>
  /\ ~last.ok
  /\ last.err = <<"Rep", "Ctx1", "Ctx2", "Ctx">>

\* C10: when the parser fails with E under bindError, the handler is called
\* with exactly E and the parser it returns is executed once on the
\* caller's own state with the cursor at the pre-attempt position; run
\* returns that parser's value or fails with its failure, and no other
\* strategy option is applied.
C10_BindError ==
  (/\ last.call.k = "run"
   /\ "bindError" \in DOMAIN last.call.opt
   /\ ~Attempt.ok)
  => LET q == BindError(last.call.opt.bindError, Attempt.err)
         bound == Direct(q, last.pre)
         onCaller == SelectSeq(last.calls, LAMBDA c : c.s = 1)
     IN /\ SelectSeq(last.binds, LAMBDA b : b.s = 1)
             = <<[errs |-> Attempt.err, s |-> 1]>>
        /\ Len(onCaller) >= 1
        /\ onCaller[1].p = q
        /\ Len(SelectSeq(onCaller, LAMBDA c : c.p = q)) = 1
        /\ last.ok = bound.ok
        /\ bound.ok => last.val = bound.val
        /\ ~bound.ok => last.err = bound.err
        /\ Post = Position(bound.h, 1)

\* the parser failed after reading; the handler's parser then consumed two
\* items from the pre-attempt position, other options being present
C10_Witness ==
  /\ last.call.k = "run"
  /\ DOMAIN last.call.opt = {"bindError", "withDefault", "withError"}
  /\ ~Attempt.ok
  /\ Position(Attempt.h, 1) > Pre
  /\ last.ok
  /\ last.val # last.call.opt.withDefault
  /\ Post = Pre + 2

\* the input has an item at the position the last call started from
HasItem == Pre < Len(input)
\* that item
Item == input[Pre + 1]

\* C11: accept(t) returns t and advances the cursor by one when the next
\* token is t; on another token x it fails with ["Found x", "Expected t"],
\* at end of input with ["Expected token, but reached end of input",
\* "Expected t"], and in both cases the cursor is unchanged.
C11_Accept ==
  last.call.k = "accept"
  => LET t == last.call.t
     IN /\ (HasItem /\ Item = t)
             => (last.ok /\ last.val = t /\ Post = Pre + 1)
        /\ (HasItem /\ Item # t)
             => /\ ~last.ok
                /\ last.err = <<"Found " \o Item, "Expected " \o t>>
                /\ Post = Pre
        /\ ~HasItem
             => /\ ~last.ok
                /\ last.err = <<"Expected token, but reached end of input",
                                "Expected " \o t>>
                /\ Post = Pre

\* accept('A') met 'B' after one item had been consumed
C11_Witness ==
  /\ last.call.k = "accept"
  /\ Pre = 1
  /\ ~last.ok
  /\ last.err = <<"Found B", "Expected A">>
  /\ Post = 1

\* C12: recognize(pred) reads one item: the end marker gives an EndOfInput
\* failure, a token pred rejects a Mismatch failure naming it, a token
\* pred takes is returned with the cursor one position further.
C12_Recognize ==
  last.call.k = "recognize"
  => /\ ~HasItem
          => (~last.ok
              /\ last.err = <<"Expected token, but reached end of input">>)
     /\ (HasItem /\ Item \notin last.call.ts)
          => (~last.ok /\ last.err = <<"Found " \o Item>>)
     /\ (HasItem /\ Item \in last.call.ts)
          => (last.ok /\ last.val = Item /\ Post = Pre + 1)
     /\ Len(heap.its[1].buf) <= IF Len(last.pre.its[1].buf) > Pre
                                THEN Len(last.pre.its[1].buf) ELSE Pre + 1

\* recognize met the end of a non-empty input
C12_Witness ==
  /\ last.call.k = "recognize"
  /\ Pre = Len(input)
  /\ Pre > 0
  /\ ~last.ok
  /\ last.err = <<"Expected token, but reached end of input">>

\* C20: recognize advances the cursor of the state it is called on by one
\* on every call, failing ones included; when the same failing recognize
\* is made through accept (a run), the item is read through the copy and
\* the caller's cursor stays.
C20_RecognizeAlwaysAdvances ==
  /\ last.call.k = "recognize" => Post = Pre + 1
  /\ (last.call.k = "accept" /\ ~last.ok)
       => /\ Post = Pre
          /\ Len(heap.its[1].buf) >= Pre + 1
          /\ Position(Direct([k |-> "recognize", ts |-> {last.call.t}],
                              last.pre).h, 1) = Pre + 1

\* a recognize called on the state itself rejected a token and left it
\* consumed
C20_Witness ==
  /\ last.call.k = "recognize"
  /\ ~last.ok
  /\ HasItem
  /\ last.err = <<"Found " \o Item>>
  /\ Post = Pre + 1

\* the parser the handler of the last run returns for the failure of the
\* run's parser, called on the state the run started from
Fallback ==
  Direct(BindError(last.call.opt.bindError, Attempt.err), last.pre)

\* C17: when the parser returned by a bindError handler fails after reading
\* from the caller's state, run fails with that parser's failure and the
\* caller's cursor is still at the pre-attempt position.
C17_FailedFallbackKeepsCursor ==
  (/\ last.call.k = "run"
   /\ "bindError" \in DOMAIN last.call.opt
   /\ ~Attempt.ok
   /\ ~Fallback.ok
   /\ Position(Fallback.h, 1) > Pre)
  => /\ ~last.ok
     /\ last.err = Fallback.err
     /\ Post = Pre

\* heap h after n reads of cursor c
RECURSIVE ReadN(_, _, _)
ReadN(h, c, n) == IF n = 0 THEN h ELSE ReadN(next(h, c).h, c, n - 1)

\* a fresh top-level parser state moved to position n by n reads
Fresh(n) == [h |-> ReadN(NewHeap, 1, n), s |-> 1]

\* a parser state built over a copy of a fresh stream, moved to position n
Nested(n) ==
  LET cp == createParser(NewHeap, 1)
  IN [h |-> ReadN(cp.h, cp.s, n), s |-> cp.s]

\* the last call has the outcome and final position that the same call
\* has on parser state st
SameOutcomeOn(st) ==
  LET out == Body(st.h, st.s, last.call)
  IN /\ out.ok = last.ok
     /\ out.ok => out.val = last.val
     /\ ~out.ok => out.err = last.err
     /\ Position(out.h, st.s) = Post

\* C16: for a fixed input and parser, running it from two states whose
\* cursors are at the same position gives the same value or failure list
\* and the same final position.
C16_Determinism ==
  last.call.k # "none"
  => /\ Position(Fresh(Pre).h, 1) = Pre
     /\ Position(Nested(Pre).h, Nested(Pre).s) = Pre
     /\ SameOutcomeOn(Fresh(Pre))
     /\ SameOutcomeOn(Nested(Pre))

\* a choice that fell through to its second alternative, from a state
\* whose buffer was already read ahead of the cursor
C16_Witness ==
  /\ last.call.k = "choice"
  /\ Len(last.call.ps) = 2
  /\ Len(last.pre.its[1].buf) > Pre
  /\ FirstOk = 2
  /\ Post > Pre

\* single evaluation with commit: the parser is evaluated once on a parser
\* state over a copy and, when it succeeds, the caller's cursor is moved
\* to the position the copy reached; a failure is resolved as run does
CommitRun(h, s, parser, options) ==
  LET cp == createParser(h, s)
      tried == Apply(cp.h, cp.s, parser)
      reached == Position(tried.h, cp.s)
      rest == Discard(tried.h, h)
  IN IF ~tried.ok THEN Catch(rest, s, options, tried.err)
     ELSE Return([rest EXCEPT !.curs[s].i = @ + reached - Position(h, s)],
                 tried.val)

\* the evaluation of the last run's parser on a copy of the caller's state
Validation ==
  LET cp == createParser(last.pre, 1)
      tried == Apply(cp.h, cp.s, last.call.p)
  IN [tried EXCEPT !.h = Discard(@, last.pre)]

\* C18: run (evaluate on a copy, then again on the caller's state) gives
\* the value or failure list and the final cursor position of single
\* evaluation with commit, and its second evaluation never fails after
\* the first succeeded.
C18_ValidateThenCommit ==
  last.call.k = "run"
  => LET ref == CommitRun(last.pre, 1, last.call.p, last.call.opt)
     IN /\ ref.ok = last.ok
        /\ ref.ok => ref.val = last.val
        /\ ~ref.ok => ref.err = last.err
        /\ Position(ref.h, 1) = Post
        /\ Validation.ok => Direct(last.call.p, Validation.h).ok

\* the parser succeeded on the copy and consumed two items
C18_Witness ==
  /\ last.call.k = "run"
  /\ Validation.ok
  /\ last.ok
  /\ Post = Pre + 2

\* ------------------------------------------------- the stream on its own
\* A second program over the same state: callers that hold cursors of the
\* copyable iterator read them, copy them, build iterators over copies of
\* them (as run does) and run parsers on them, in any order.
MaxCursors == 3

\* the cursors no caller holds: each nested iterator's own source iterator
Private(h) == {h.its[j].src : j \in DOMAIN h.its} \ {0}
Held(h) == DOMAIN h.curs \ Private(h)

\* the results of n reads of cursor c, in order, and the heap after them
RECURSIVE Reads(_, _, _)
Reads(h, c, n) ==
  IF n = 0 THEN [h |-> h, res |-> <<>>]
  ELSE LET r == next(h, c)
           rest == Reads(r.h, c, n - 1)
       IN [h |-> rest.h, res |-> <<r.res>> \o rest.res]

\* const it = copyableIterator(input)
StreamInit ==
  /\ input \in Inputs
  /\ heap = NewHeap
  /\ last = NoCall
  /\ nops = 0

\* ghost: the operation just made, the heap before it, what it returned
Observe(call, out) ==
  last' = [call |-> call, pre |-> heap, ok |-> out.ok, val |-> out.val,
           err |-> out.err, calls |-> <<>>, binds |-> <<>>]

\* c.next()
CursorNext(c) ==
  LET r == next(heap, c)
  IN /\ last.call.k = "none"
     /\ Position(heap, c) <= MaxLen
     /\ heap' = r.h
     /\ Observe([k |-> "next", c |-> c], Return(r.h, r.res))
     /\ UNCHANGED <<input, nops>>

\* c.copy()
CursorCopy(c) ==
  LET cp == copy(heap, c)
  IN /\ last.call.k = "none"
     /\ Len(heap.curs) < MaxCursors
     /\ heap' = cp.h
     /\ Observe([k |-> "copy", c |-> c], Return(cp.h, cp.c))
     /\ UNCHANGED <<input, nops>>

\* copyableIterator({[Symbol.iterator]: c.copy})
Nest(c) ==
  LET ci == copyableIterator(heap, c)
  IN /\ last.call.k = "none"
     /\ Len(heap.curs) + 2 <= MaxCursors
     /\ heap' = ci.h
     /\ Observe([k |-> "nest", c |-> c], Return(ci.h, ci.c))
     /\ UNCHANGED <<input, nops>>

\* the parsers run on cursors
StreamParsers == {accA, readXA}

\* parser(state) for the parser state whose cursor is c
Parse(c, p) ==
  LET out == Apply(heap, c, p)
  IN /\ last.call.k = "none"
     /\ Position(heap, c) <= MaxLen
     /\ heap' = [Discard(out.h, heap) EXCEPT !.calls = <<>>, !.binds = <<>>]
     /\ Observe([k |-> "parse", c |-> c, p |-> p], out)
     /\ UNCHANGED <<input, nops>>

\* n reads of c, then d = c.copy(), then n reads of d; d is a local of
\* the caller and garbage afterwards
ReadCopyRead(c, n) ==
  LET a == Reads(heap, c, n)
      cp == copy(a.h, c)
      b == Reads(cp.h, cp.c, n)
  IN /\ last.call.k = "none"
     /\ Position(heap, c) + 2 * n <= MaxLen + 1
     /\ heap' = Discard(b.h, heap)
     /\ Observe([k |-> "readCopyRead", c |-> c, n |-> n],
                Return(b.h, a.res \o b.res))
     /\ UNCHANGED <<input, nops>>

StreamNext ==
  \/ Continue
  \/ \E c \in Held(heap) : CursorNext(c)
  \/ \E c \in Held(heap) : CursorCopy(c)
  \/ \E c \in Held(heap) : Nest(c)
  \/ \E c \in Held(heap), p \in StreamParsers : Parse(c, p)
  \/ \E c \in Held(heap), n \in 0..MaxLen : ReadCopyRead(c, n)

StreamSpec == StreamInit /\ [][StreamNext]_vars

\* position of the first item in the buffer of iterator j
BufferStart(h, j) ==
  IF h.its[j].src = 0 THEN 0
  ELSE Position(h, h.its[j].src) - Len(h.its[j].buf)

\* C13: the source's next() is called once for each position visited and
\* never again; every buffer, of the iterator over the source and of the
\* nested ones, holds the source's results in order; a read at position k
\* returns the source's k-th result, without a source call when k was
\* visited before.
C13_SourceReadOncePerPosition ==
  /\ heap.srcCalls = Len(heap.its[1].buf)
  /\ \A j \in DOMAIN heap.its : \A n \in DOMAIN heap.its[j].buf :
       heap.its[j].buf[n] = SourceNext(BufferStart(heap, j) + n - 1)
  /\ last.call.k = "next"
     => LET at == Position(last.pre, last.call.c)
        IN /\ last.val = SourceNext(at)
           /\ at <= last.pre.srcCalls
           /\ heap.srcCalls = IF at < last.pre.srcCalls
                              THEN last.pre.srcCalls ELSE at + 1

\* a cursor of a nested iterator replayed a token that another cursor
\* had fetched
C13_Witness ==
  /\ last.call.k = "next"
  /\ heap.its[heap.curs[last.call.c].it].src # 0
  /\ Position(last.pre, last.call.c) < last.pre.srcCalls
  /\ heap.srcCalls = last.pre.srcCalls
  /\ ~last.val.done

\* C14: n reads of a cursor, a copy, n reads of the copy return what 2n
\* reads of the one cursor return, in the same order.
C14_CopyContinues ==
  last.call.k = "readCopyRead"
  => LET one == Reads(last.pre, last.call.c, 2 * last.call.n)
     IN /\ Len(last.val) = 2 * last.call.n
        /\ last.val = one.res
        /\ \A j \in DOMAIN last.val :
             last.val[j] = SourceNext(Position(last.pre, last.call.c) + j - 1)

\* the copy was taken of a cursor of a nested iterator after it read a
\* token, and the copy read the end marker
C14_Witness ==
  /\ last.call.k = "readCopyRead"
  /\ heap.its[heap.curs[last.call.c].it].src # 0
  /\ last.call.n >= 1
  /\ ~last.val[1].done
  /\ last.val[2 * last.call.n].done

\* the cursors that reads of c advance besides c: the source iterators
\* that feed c's iterator
RECURSIVE Feeds(_, _)
Feeds(h, c) ==
  LET s == h.its[h.curs[c].it].src
  IN IF s = 0 THEN {} ELSE {s} \cup Feeds(h, s)

\* the items cursor d returns on its next reads
Upcoming(h, d) == Reads(h, d, MaxLen + 1).res

\* C15: a read of a cursor, or a parser run on it, leaves the index and
\* the upcoming items of every other cursor as they were; cursors at the
\* same position have the same upcoming items, the source's from there.
C15_OtherCursorsUntouched ==
  /\ last.call.k \in {"next", "parse"}
     => \A d \in DOMAIN last.pre.curs \
                  ({last.call.c} \cup Feeds(last.pre, last.call.c)) :
          /\ heap.curs[d] = last.pre.curs[d]
          /\ Upcoming(heap, d) = Upcoming(last.pre, d)
  /\ \A d \in Held(heap) :
       LET items == Upcoming(heap, d)
           at == Position(heap, d)
       IN \A j \in DOMAIN items : items[j] = SourceNext(at + j - 1)

\* a parser consumed items on one of two cursors that stood at the same
\* position of the same iterator
C15_Witness ==
  /\ last.call.k = "parse"
  /\ last.ok
  /\ \E d \in Held(last.pre) \ {last.call.c} :
       /\ last.pre.curs[d] = last.pre.curs[last.call.c]
       /\ Position(heap, last.call.c) > Position(heap, d)

\* ------------------------------------------- many and repeat, step by step
\* A third program over the same state: one call of many or repeat made
\* on the top-level parser state, executed one call or return at a time.
\* last holds the call stack of the calls of many, repeat and run that are
\* in progress, and the value returned or error thrown to the top frame.
\* Each application of the argument parser (run(parser) in repeat) is one
\* step.
MaxDepth == 8

OptA == [k |-> "option", p |-> accA]
Always == [k |-> "const", v |-> "A"]

\* the argument parsers: three whose successes consume, one that succeeds
\* with or without consuming, one that never consumes
LoopParsers == {accA, readXA, failC, OptA, Always}

NoRet == [set |-> FALSE, ok |-> TRUE, val |-> <<>>, err |-> <<>>]
Ret(out) == [set |-> TRUE, ok |-> out.ok, val |-> out.val, err |-> out.err]

Idle == [call |-> [k |-> "none"], pre |-> NewHeap, stack |-> <<>>, ret |-> NoRet]

\* the frame of a call of many or repeat on parser state s
Frame(f, s, pc) ==
  [f |-> f, s |-> s, pc |-> pc, parsed |-> <<>>, nIts |-> 0, nCurs |-> 0]

Top == last.stack[Len(last.stack)]
Below == SubSeq(last.stack, 1, Len(last.stack) - 1)
Running == last.call.k # "none" /\ last.stack # <<>>
Done == last.call.k # "none" /\ last.stack = <<>> /\ last.ret.set

LoopInit ==
  /\ input \in Inputs
  /\ heap = NewHeap
  /\ last = Idle
  /\ nops = 0

\* p.many(parser) or p.repeat(parser) is called
Start(k, p) ==
  /\ last.call.k = "none"
  /\ nops < MaxOps
  /\ nops' = nops + 1
  /\ last' = [call |-> [k |-> k, p |-> p], pre |-> heap, ret |-> NoRet,
              stack |-> <<Frame(k, 1, "start")>>]
  /\ UNCHANGED <<input, heap>>

\* many calls run, which calls (p) => p.repeat(parser) with a parser state
\* over a copy
ManySnapshot ==
  /\ Running /\ Top.f = "many" /\ Top.pc = "start"
  /\ Len(last.stack) < MaxDepth
  /\ LET cp == createParser(heap, Top.s)
     IN /\ heap' = cp.h
        /\ last' = [last EXCEPT !.stack =
                     Append(Below, [Top EXCEPT !.pc = "snapshot",
                                               !.nIts = Len(heap.its),
                                               !.nCurs = Len(heap.curs)])
                     \o <<Frame("repeat", cp.s, "start")>>]
  /\ UNCHANGED <<input, nops>>

\* const parsed = _this.run(parser): a throw leaves repeat
RepeatFirst ==
  /\ Running /\ Top.f = "repeat" /\ Top.pc = "start"
  /\ \E out \in {run(heap, Top.s, last.call.p, Undefined)} :
        /\ heap' = [out.h EXCEPT !.calls = <<>>, !.binds = <<>>]
        /\ last' = IF out.ok
                   THEN [last EXCEPT !.stack =
                           Append(Below, [Top EXCEPT !.pc = "first",
                                                     !.parsed = out.val])]
                   ELSE [last EXCEPT !.stack = Below, !.ret = Ret(out)]
  /\ UNCHANGED <<input, nops>>

\* const restParsed = _this.many(parser)
RepeatRest ==
  /\ Running /\ Top.f = "repeat" /\ Top.pc = "first"
  /\ Len(last.stack) < MaxDepth
  /\ last' = [last EXCEPT !.stack =
                Append(Below, [Top EXCEPT !.pc = "rest"])
                \o <<Frame("many", Top.s, "start")>>]
  /\ UNCHANGED <<input, heap, nops>>

\* return [parsed, ...restParsed]
RepeatReturn ==
  /\ Running /\ Top.f = "repeat" /\ Top.pc = "rest" /\ last.ret.set
  /\ last' = [last EXCEPT !.stack = Below,
                          !.ret = IF last.ret.ok
                                  THEN [@ EXCEPT !.val = <<Top.parsed>> \o @]
                                  ELSE @]
  /\ UNCHANGED <<input, heap, nops>>

\* the call on the copy is over: after a return run goes on to
\* parser(_this), after a throw it returns bindError(errors)(_this) = []
ManyValidated ==
  /\ Running /\ Top.f = "many" /\ Top.pc = "snapshot" /\ last.ret.set
  /\ heap' = [heap EXCEPT !.its = SubSeq(@, 1, Top.nIts),
                          !.curs = SubSeq(@, 1, Top.nCurs)]
  /\ last' = IF last.ret.ok
             THEN [last EXCEPT !.ret = NoRet,
                               !.stack = Append(Below, [Top EXCEPT !.pc = "commit"])
                                         \o <<Frame("repeat", Top.s, "start")>>]
             ELSE [last EXCEPT !.stack = Below,
                               !.ret = Ret(Return(heap, <<>>))]
  /\ UNCHANGED <<input, nops>>

\* parser(_this) is over: run returns its value, or [] after a throw
ManyCommitted ==
  /\ Running /\ Top.f = "many" /\ Top.pc = "commit" /\ last.ret.set
  /\ last' = [last EXCEPT !.stack = Below,
                          !.ret = IF last.ret.ok THEN @
                                  ELSE Ret(Return(heap, <<>>))]
  /\ UNCHANGED <<input, heap, nops>>

\* the caller has the result and goes on to its next statement
LoopContinue ==
  /\ Done
  /\ last' = Idle
  /\ UNCHANGED <<input, heap, nops>>

LoopNext ==
  \/ \E k \in {"many", "repeat"}, p \in LoopParsers : Start(k, p)
  \/ ManySnapshot
  \/ RepeatFirst
  \/ RepeatRest
  \/ RepeatReturn
  \/ ManyValidated
  \/ ManyCommitted
  \/ LoopContinue

\* the steps other than the application of the argument parser
Control ==
  \/ \E k \in {"many", "repeat"}, p \in LoopParsers : Start(k, p)
  \/ ManySnapshot
  \/ RepeatRest
  \/ RepeatReturn
  \/ ManyValidated
  \/ ManyCommitted
  \/ LoopContinue

\* RepeatFirst can be taken, and changes the stack, exactly when a repeat
\* frame at its start is on top
RepeatFirstEnabled == Running /\ Top.f = "repeat" /\ Top.pc = "start"

\* the program is sequential and nothing suspends it: it takes its next
\* step whenever it has one.  The weak fairness of RepeatFirst is written
\* out, with RepeatFirstEnabled for ENABLED <<RepeatFirst>>_vars.
LoopSpec ==
  /\ LoopInit /\ [][LoopNext]_vars
  /\ WF_vars(Control)
  /\ ([]<>(~RepeatFirstEnabled) \/ []<><<RepeatFirst>>_vars)

\* every successful application of p, at any position of the input,
\* consumes at least one token
Consuming(p) ==
  \A n \in 0..Len(input) :
    LET out == Direct(p, Fresh(n).h)
    IN out.ok => /\ Position(out.h, 1) > n
                 /\ Position(out.h, 1) <= Len(input)

\* C19: a call of many(p) or repeat(p) whose p consumes a token whenever
\* it succeeds returns or throws; until then no state of its call stack
\* is past the end of the input and the stack holds at most one many and
\* one repeat call for each item left and for the end of input; its
\* result is that of the recursive definition.
C19_LoopsTerminate ==
  /\ (last.call.k # "none" /\ Consuming(last.call.p)) ~> Done
  /\ [](last.call.k # "none" /\ Consuming(last.call.p)
        => /\ \A n \in DOMAIN last.stack :
                Position(heap, last.stack[n].s) <= Len(input)
           /\ Len(last.stack) <= 2 * (Len(input) - Pre + 1)
           /\ Len(last.stack) < MaxDepth)
  /\ [](Done => LET out == Body(last.pre, 1, last.call)
                IN /\ out.ok = last.ret.ok
                   /\ out.ok => out.val = last.ret.val
                   /\ ~out.ok => out.err = last.ret.err
                   /\ Position(out.h, 1) = Post)

\* many returned after two successful applications
C19_Witness ==
  /\ Done
  /\ last.call.k = "many"
  /\ Consuming(last.call.p)
  /\ last.ret.ok /\ Len(last.ret.val) = 2

====
